---------------------------- MODULE Spec2Model ----------------------------
(***************************************************************************)
(* flaclink: hardlink newly downloaded FLAC albums from a source directory *)
(* into a music library, remembering linked albums in a bbolt database.    *)
(*                                                                         *)
(* File names are byte sequences (tuples of character codes); a path is a  *)
(* sequence of names.  The file system maps every existing path to a node. *)
(* The album database is the bbolt file ~/.flaclink/albums.db: whether the *)
(* file exists, whether the bucket "albums" exists, the bucket's key/value *)
(* pairs and the advisory file lock bolt.Open takes.                       *)
(***************************************************************************)
EXTENDS Naturals, Sequences, FiniteSets, TLC

(* ------------------------------ bounds -------------------------------- *)

\* Invocations of the program started in one behaviour (all processes).
MaxRuns == 2

\* How much may go other than in the plain case (one readable source album
\* holding a.flac, an empty readable library, a volume that takes every
\* write): the features of the initial file system that differ from the
\* plain one, and the writes the volume refuses during the runs, together.
MaxDeviations == 2

(* ------------------------------- names -------------------------------- *)

Name_a_flac == <<97, 46, 102, 108, 97, 99>>
Name_t_flac == <<116, 46, 102, 108, 97, 99>>
Name_c_jpg == <<99, 46, 106, 112, 103>>
Name_s == <<115>>
Name_A == <<65>>
Name_B == <<66>>
Name_M == <<77>>
Name_src == <<115, 114, 99>>
Name_lib == <<108, 105, 98>>

\* The literal ".flac" compared with in isAlbum.
FlacExt == <<46, 102, 108, 97, 99>>

Procs == {"p1", "p2"}
NoProc == "none"

(* ------------------------- path/filepath, os --------------------------- *)

\* filepath.Join(dir, name)
Join(dir, name) == Append(dir, name)

\* filepath.Base(path)
Base(path) == path[Len(path)]

\* Index of the last '.' of a name, 0 when there is none.
LastDot(name) ==
    LET dots == {i \in 1..Len(name) : name[i] = 46}
    IN  IF dots = {} THEN 0 ELSE CHOOSE i \in dots : \A j \in dots : j <= i

\* filepath.Ext(path): the suffix of the last element from its last dot.
Ext(path) ==
    LET name == Base(path)
        d == LastDot(name)
    IN  IF d = 0 THEN <<>> ELSE SubSeq(name, d, Len(name))

\* Byte-wise order of file names, the order ioutil.ReadDir sorts by.
NameLess(a, b) ==
    \E i \in 1..(Len(a) + 1) :
        /\ \A j \in 1..(i - 1) : j <= Len(b) /\ a[j] = b[j]
        /\ \/ i > Len(a) /\ i <= Len(b)
           \/ i <= Len(a) /\ i <= Len(b) /\ a[i] < b[i]

\* The names of the entries of directory dir.
Children(fs, dir) ==
    {p[Len(p)] : p \in {q \in DOMAIN fs :
                          Len(q) = Len(dir) + 1 /\ SubSeq(q, 1, Len(dir)) = dir}}

RECURSIVE SortNames(_)
SortNames(S) ==
    IF S = {} THEN <<>>
    ELSE LET m == CHOOSE x \in S : \A y \in S \ {x} : NameLess(x, y)
         IN  <<m>> \o SortNames(S \ {m})

\* ioutil.ReadDir(dir): the entries sorted by name, each with its name and
\* IsDir(), or an error when dir is missing, no directory or unreadable.
ReadDir(fs, dir) ==
    IF dir \in DOMAIN fs /\ fs[dir].isDir /\ fs[dir].readable
    THEN LET names == SortNames(Children(fs, dir))
         IN  [err |-> FALSE,
              files |-> [i \in 1..Len(names) |->
                           [name |-> names[i],
                            isDir |-> fs[Join(dir, names[i])].isDir]]]
    ELSE [err |-> TRUE, files |-> <<>>]

(* ------------------------------ isAlbum -------------------------------- *)

RECURSIVE isAlbum(_, _)
RECURSIVE isAlbumScan(_, _, _, _)
RECURSIVE isAlbumScanAll(_, _, _, _)

\* A scan that goes on to the later entries when a subdirectory holds no
\* .flac file.
isAlbumScanAll(fs, dirPath, contents, i) ==
    IF i > Len(contents) THEN FALSE
    ELSE LET path == Join(dirPath, contents[i].name)
         IN  IF contents[i].isDir
             THEN isAlbum(fs, path) \/ isAlbumScanAll(fs, dirPath, contents, i + 1)
             ELSE IF Ext(path) = FlacExt THEN TRUE
             ELSE isAlbumScanAll(fs, dirPath, contents, i + 1)

\* The loop of isAlbum from entry i on: the first directory decides by the
\* recursive call, the first name with extension .flac returns true.
isAlbumScan(fs, dirPath, contents, i) ==
    IF i > Len(contents) THEN FALSE
    ELSE LET path == Join(dirPath, contents[i].name)
         IN  IF contents[i].isDir THEN isAlbum(fs, path)
             ELSE IF Ext(path) = FlacExt THEN TRUE
             ELSE isAlbumScan(fs, dirPath, contents, i + 1)

isAlbum(fs, dirPath) ==
    LET r == ReadDir(fs, dirPath)
    IN  IF r.err THEN FALSE ELSE isAlbumScan(fs, dirPath, r.files, 1)

\* newAlbum(path): the base name and the names of the immediate entries (the
\* error of ReadDir is dropped, leaving Contents empty).
newAlbum(fs, path) ==
    LET r == ReadDir(fs, path)
    IN  [DirName |-> Base(path),
         Contents |-> [i \in 1..Len(r.files) |-> r.files[i].name]]

(* ---------------------------- encoding/gob ----------------------------- *)

\* The type definition message gob sends first for a []string.
GobTypeDef == <<12, 255, 129, 2, 1, 2, 255, 130, 0, 1, 12, 0, 0>>

RECURSIVE GobStrings(_, _)
GobStrings(contents, i) ==
    IF i > Len(contents) THEN <<>>
    ELSE <<Len(contents[i])>> \o contents[i] \o GobStrings(contents, i + 1)

\* gob.NewEncoder(&buf).Encode(album.Contents); buf.Bytes(): the type
\* definition, then the value message: its length, the type id, the
\* singleton marker, the element count and each string with its length.
GobEncode(contents) ==
    LET body == <<255, 130, 0, Len(contents)>> \o GobStrings(contents, 1)
    IN  GobTypeDef \o <<Len(body)>> \o body

(* ------------------------------ linkAlbum ------------------------------ *)

\* A Mkdir that takes an existing directory for made, as os.MkdirAll does.
MkdirAll(fs, path) ==
    LET parent == SubSeq(path, 1, Len(path) - 1)
    IN  parent \in DOMAIN fs /\ fs[parent].isDir

\* os.Mkdir(path): fails when path exists or its parent is no directory.
MkdirOk(fs, path) ==
    LET parent == SubSeq(path, 1, Len(path) - 1)
    IN  path \notin DOMAIN fs /\ parent \in DOMAIN fs /\ fs[parent].isDir

DirNode == [isDir |-> TRUE, ino |-> 0, readable |-> TRUE, linkable |-> FALSE]

\* os.Link(old, new): fails when new exists or the kernel refuses a link to
\* old (EPERM, EXDEV); the new entry names the same inode as old.
LinkOk(fs, old, new) == new \notin DOMAIN fs /\ fs[old].linkable

RECURSIVE linkAlbum(_, _, _)
RECURSIVE linkAlbumLoop(_, _, _, _, _)

\* The loop of linkAlbum from entry i on.  fatal: log.Fatalf ended the
\* process; what was created so far stays.
linkAlbumLoop(fs, sourcePath, targetDirPath, sourceContents, i) ==
    IF i > Len(sourceContents) THEN [fs |-> fs, fatal |-> FALSE]
    ELSE LET file == sourceContents[i]
         IN  IF file.isDir
             THEN LET sub == linkAlbum(fs, Join(sourcePath, file.name), targetDirPath)
                  IN  IF sub.fatal THEN sub
                      ELSE linkAlbumLoop(sub.fs, sourcePath, targetDirPath,
                                         sourceContents, i + 1)
             ELSE LET sourceFilePath == Join(sourcePath, file.name)
                      targetFilePath == Join(targetDirPath, file.name)
                  IN  IF ~LinkOk(fs, sourceFilePath, targetFilePath)
                      THEN [fs |-> fs, fatal |-> TRUE]
                      ELSE linkAlbumLoop(
                               (targetFilePath :> fs[sourceFilePath]) @@ fs,
                               sourcePath, targetDirPath, sourceContents, i + 1)

\* linkAlbum(sourcePath, targetPath): make targetPath/base(sourcePath), then
\* mirror the entries; the error of ReadDir(sourcePath) is dropped.
linkAlbum(fs, sourcePath, targetPath) ==
    LET targetDirPath == Join(targetPath, Base(sourcePath))
    IN  IF ~MkdirOk(fs, targetDirPath) THEN [fs |-> fs, fatal |-> TRUE]
        ELSE LET made == (targetDirPath :> DirNode) @@ fs
             IN  linkAlbumLoop(made, sourcePath, targetDirPath,
                               ReadDir(made, sourcePath).files, 1)

\* The file system as os.Link meets it while the volume has no room for
\* another directory entry: the kernel refuses every link (ENOSPC).
NoSpace(fs) == [q \in DOMAIN fs |-> [fs[q] EXCEPT !.linkable = FALSE]]

\* linkAlbum as the caller finds it.  space: the volume has room; without,
\* the directories made before the first os.Link stay.
linkAlbumOnVolume(fs, sourcePath, targetPath, space) ==
    IF space THEN linkAlbum(fs, sourcePath, targetPath)
    ELSE LET r == linkAlbum(NoSpace(fs), sourcePath, targetPath)
         IN  [fs |-> [q \in DOMAIN r.fs |->
                        IF q \in DOMAIN fs THEN fs[q] ELSE r.fs[q]],
              fatal |-> r.fatal]

(* ------------------------- initial file systems ------------------------ *)

source == <<Name_src>>
dest == <<Name_lib>>

\* A regular file; its inode is named by the path it was created at.
FileNode(path, linkable) ==
    [isDir |-> FALSE, ino |-> path, readable |-> TRUE, linkable |-> linkable]

Dir(readable) == [DirNode EXCEPT !.readable = readable]

\* The files of `names` in directory dir, all linkable but `bad`.
FilesIn(dir, names, bad) ==
    [p \in {Join(dir, n) : n \in names} |-> FileNode(p, p # bad)]

EmptyFs == [p \in {} |-> DirNode]

\* What may be in the source album A beside or in place of a.flac, whether
\* A has a subdirectory s (holding a.flac or c.jpg, unreadable with a.flac in
\* it) and whether the source has a second directory B (holding a.flac or
\* c.jpg, unreadable with a.flac in it).
TopChoices == {{Name_a_flac}, {Name_a_flac, Name_t_flac}, {Name_t_flac}, {}}
SubChoices == {"none", "flac", "jpg", "unreadable"}
OtherChoices == {"none", "flac", "jpg", "unreadable"}

Scenarios ==
    [top : TopChoices, sub : SubChoices, bad : {"none", "top", "sub"},
     other : OtherChoices, rootFile : BOOLEAN,
     sourceReadable : BOOLEAN, destReadable : BOOLEAN, library : BOOLEAN]

Plain ==
    [top |-> {Name_a_flac}, sub |-> "none", bad |-> "none",
     other |-> "none", rootFile |-> FALSE,
     sourceReadable |-> TRUE, destReadable |-> TRUE, library |-> FALSE]

Deviations(sc) == Cardinality({f \in DOMAIN sc : sc[f] # Plain[f]})

\* The file the kernel refuses to link: the last file of A, or the file in
\* A's subdirectory.
BadPath(sc) ==
    LET A == Join(source, Name_A)
    IN  IF sc.bad = "top" /\ sc.top # {}
        THEN Join(A, CHOOSE n \in sc.top : \A m \in sc.top \ {n} : NameLess(m, n))
        ELSE IF sc.bad = "sub" /\ sc.sub # "none"
        THEN Join(Join(A, Name_s), IF sc.sub = "jpg" THEN Name_c_jpg ELSE Name_a_flac)
        ELSE <<>>

WellFormed(sc) == sc.bad # "none" => BadPath(sc) # <<>>

MkFs(sc) ==
    LET A == Join(source, Name_A)
        B == Join(source, Name_B)
        S == Join(A, Name_s)
        M == Join(dest, Name_M)
        bad == BadPath(sc)
    IN  (source :> Dir(sc.sourceReadable)) @@ (dest :> Dir(sc.destReadable))
        @@ (A :> Dir(TRUE)) @@ FilesIn(A, sc.top, bad)
        @@ (IF sc.sub = "none" THEN EmptyFs
            ELSE (S :> Dir(sc.sub # "unreadable"))
                 @@ FilesIn(S, IF sc.sub = "jpg" THEN {Name_c_jpg}
                               ELSE {Name_a_flac}, bad))
        @@ (IF sc.other = "none" THEN EmptyFs
            ELSE (B :> Dir(sc.other # "unreadable"))
                 @@ FilesIn(B, IF sc.other = "jpg" THEN {Name_c_jpg}
                               ELSE {Name_a_flac}, bad))
        @@ (IF sc.rootFile THEN FilesIn(source, {Name_c_jpg}, bad) ELSE EmptyFs)
        @@ (IF sc.library
            THEN (M :> Dir(TRUE)) @@ FilesIn(M, {Name_a_flac}, bad)
            ELSE EmptyFs)

\* The scenarios a behaviour may start in.
Family == {x \in Scenarios : WellFormed(x) /\ Deviations(x) <= MaxDeviations}

(* -------------------------------- state -------------------------------- *)

VARIABLES
    fs,            \* the file system: path -> node
    dbExists,      \* albums.db exists
    bucketExists,  \* the bucket "albums" exists in albums.db
    bucket,        \* the bucket "albums": gob key -> album directory name
    flock,         \* the process holding the lock on albums.db, or NoProc
    proc,          \* per process: program counter and locals
    runs,          \* invocations started so far
    faultsLeft,    \* failures of the volume that may still happen
    replicated,    \* history: the calls of linkAlbum that returned
    aborted,       \* history: target directories whose linkAlbum died
    inserted,      \* history: the Contents whose Put committed
    lookups,       \* history: the calls of inDb that returned
    detected       \* history: the calls of isAlbum made by the two scans

vars == <<fs, dbExists, bucketExists, bucket, flock, proc, runs, faultsLeft,
          replicated, aborted, inserted, lookups, detected>>

Ops == {"createAlbumDb", "updateAlbumDb", "linkNewAlbums"}

NoCalls == [op \in Ops |-> 0]

\* A process that is not running: before its first run.
Fresh ==
    [pc |-> "off", op |-> "none", run |-> 0, files |-> <<>>, i |-> 1,
     regFiles |-> 0, newAlbums |-> 0, oldAlbums |-> 0, linkAlbumCalls |-> 0,
     handles |-> 0, opens |-> NoCalls, closes |-> NoCalls,
     writes |-> 0, site |-> "none"]

Stopped == {"off", "done", "fatal", "panic"}

EmptyBucket == [k \in {} |-> <<>>]

Init ==
    /\ \E sc \in Family :
          fs = MkFs(sc) /\ faultsLeft = MaxDeviations - Deviations(sc)
    /\ dbExists = FALSE
    /\ bucketExists = FALSE
    /\ bucket = EmptyBucket
    /\ flock = NoProc
    /\ proc = [p \in Procs |-> Fresh]
    /\ runs = 0
    /\ replicated = <<>>
    /\ aborted = {}
    /\ inserted = {}
    /\ lookups = {}
    /\ detected = {}

(* ------------------------------- bbolt --------------------------------- *)

\* log.Fatal: os.Exit(1) at once, deferred calls do not run; the kernel
\* drops the dead process's lock.
Fatal(r, where) == [r EXCEPT !.pc = "fatal", !.site = where]

\* bolt.Open granted the lock: one more open handle in operation op.
Opened(r, op, next) ==
    [r EXCEPT !.pc = next, !.handles = @ + 1, !.opens[op] = @ + 1]

\* A return that leaves the handle open.
NotClosed(r, op) == r

\* db.Close(): the handle is gone.
Closed(r, op) == [r EXCEPT !.handles = @ - 1, !.closes[op] = @ + 1]

\* An open that does not ask for the file lock.
LockIgnored(p) == TRUE

\* The file lock bolt.Open asks for is free.
LockFree(p) == flock = NoProc

\* bolt.Open(AlbumDbPath, 0640, Timeout 100ms) at program point `at` of
\* operation op: creates the file when missing and takes the lock; when
\* another process keeps the lock for the whole timeout, log.Fatal(err).
boltOpen(p, at, op, next) ==
    /\ proc[p].pc = at
    /\ \/ /\ LockFree(p)
          /\ flock' = p
          /\ dbExists' = TRUE
          /\ proc' = [proc EXCEPT ![p] = Opened(@, op, next)]
       \/ /\ flock \notin {NoProc, p}
          /\ proc' = [proc EXCEPT ![p] = Fatal(@, "bolt.Open")]
          /\ UNCHANGED <<flock, dbExists>>
    /\ UNCHANGED <<fs, bucketExists, bucket, runs, faultsLeft, replicated,
                   aborted, inserted, lookups, detected>>

\* A key made of the directory name instead of the listing.
KeyByName(album) == GobEncode(<<album.DirName>>)

\* The key of an album in the bucket.
Key(album) == GobEncode(album.Contents)

\* A lookup that never finds the key.
inDbNever(album, b) == FALSE

\* inDb(album, db): the key has a value in the bucket.
inDb(album, b) == Key(album) \in DOMAIN b

\* addToDb(album, db): Put in a write transaction; when the transaction
\* fails (ok false: the key is longer than bbolt's MaxKeySize, the disk is
\* full) the bucket is as before and the error is returned.
addToDb(album, b, ok) ==
    IF ok THEN (Key(album) :> album.DirName) @@ [k \in DOMAIN b \ {Key(album)} |-> b[k]]
    ELSE b

(* ------------------------- init, createAlbumDb ------------------------- *)

\* A run of the program starts: init() calls setupAppDataDir.  The two
\* processes are interchangeable, so the first run is always p1's.
setupAppDataDir(p) ==
    /\ proc[p].pc \in Stopped
    /\ runs < MaxRuns
    /\ p = "p2" => runs > 0
    /\ runs' = runs + 1
    /\ UNCHANGED faultsLeft
    /\ proc' = [proc EXCEPT ![p] = [Fresh EXCEPT !.pc = "createAlbumDb",
                                                 !.op = "createAlbumDb",
                                                 !.run = runs + 1]]
    /\ UNCHANGED <<fs, dbExists, bucketExists, bucket, flock,
                   replicated, aborted, inserted, lookups, detected>>

\* createAlbumDb: os.Stat(albumDbPath); only a missing file is initialized.
createAlbumDb_Stat(p) ==
    /\ proc[p].pc = "createAlbumDb"
    /\ proc' = [proc EXCEPT ![p].pc = IF dbExists THEN "main"
                                      ELSE "createAlbumDb_Open"]
    /\ UNCHANGED <<fs, dbExists, bucketExists, bucket, flock, runs, faultsLeft,
                   replicated, aborted, inserted, lookups, detected>>

createAlbumDb_Open(p) ==
    boltOpen(p, "createAlbumDb_Open", "createAlbumDb", "createAlbumDb_Update")

\* createAlbumDb: CreateBucketIfNotExists in db.Update, then the return runs
\* the deferred db.Close(); a failed update is log.Fatal.  ok: the write
\* transaction commits (it does not when the disk is full, which is one of
\* the faultsLeft).
createAlbumDb_Update(p, ok) ==
    /\ proc[p].pc = "createAlbumDb_Update"
    /\ flock' = NoProc
    /\ \/ /\ ok
          /\ bucketExists' = TRUE
          /\ UNCHANGED faultsLeft
          /\ proc' = [proc EXCEPT ![p] =
                        [Closed(@, "createAlbumDb") EXCEPT !.pc = "main",
                                                           !.writes = @ + 1]]
       \/ /\ ~ok
          /\ faultsLeft > 0
          /\ faultsLeft' = faultsLeft - 1
          /\ proc' = [proc EXCEPT ![p] = Fatal(@, "createAlbumDb")]
          /\ UNCHANGED bucketExists
    /\ UNCHANGED <<fs, dbExists, bucket, runs, replicated, aborted,
                   inserted, lookups, detected>>

createAlbumDb(p) ==
    \/ createAlbumDb_Stat(p)
    \/ createAlbumDb_Open(p)
    \/ \E ok \in BOOLEAN : createAlbumDb_Update(p, ok)

(* -------------------------------- main --------------------------------- *)

\* main with two arguments: updateAlbumDb(dest), then linkNewAlbums(source,
\* dest).
main(p) ==
    /\ proc[p].pc = "main"
    /\ proc' = [proc EXCEPT ![p].pc = "updateAlbumDb", ![p].op = "updateAlbumDb",
                            ![p].writes = 0]
    /\ UNCHANGED <<fs, dbExists, bucketExists, bucket, flock, runs, faultsLeft,
                   replicated, aborted, inserted, lookups, detected>>

(* ---------------------------- updateAlbumDb ---------------------------- *)

\* updateAlbumDb: ioutil.ReadDir(musicDir), fatal on error.
updateAlbumDb_ReadDir(p) ==
    /\ proc[p].pc = "updateAlbumDb"
    /\ LET r == ReadDir(fs, dest)
       IN  proc' = [proc EXCEPT ![p] =
                      IF r.err THEN Fatal(@, "updateAlbumDb")
                      ELSE [@ EXCEPT !.pc = "updateAlbumDb_Open",
                                     !.files = r.files, !.i = 1]]
    /\ UNCHANGED <<fs, dbExists, bucketExists, bucket, flock, runs, faultsLeft,
                   replicated, aborted, inserted, lookups, detected>>

updateAlbumDb_Open(p) ==
    boltOpen(p, "updateAlbumDb_Open", "updateAlbumDb", "updateAlbumDb_Loop")

\* One iteration of the loop of updateAlbumDb over musicFiles.  ok: the
\* write transaction of addToDb commits; one that does not is one of the
\* faultsLeft.
updateAlbumDb_Loop(p, ok) ==
    /\ proc[p].pc = "updateAlbumDb_Loop"
    /\ proc[p].i <= Len(proc[p].files)
    /\ LET file == proc[p].files[proc[p].i]
           contentPath == Join(dest, file.name)
           found == isAlbum(fs, contentPath)
           album == newAlbum(fs, contentPath)
           known == inDb(album, bucket)
       IN  IF ~file.isDir
           THEN /\ proc' = [proc EXCEPT ![p].i = @ + 1]
                /\ UNCHANGED <<bucket, flock, inserted, lookups, detected,
                               faultsLeft>>
           ELSE IF ~found
           THEN /\ proc' = [proc EXCEPT ![p].i = @ + 1]
                /\ detected' = detected \cup {[path |-> contentPath, result |-> FALSE]}
                /\ UNCHANGED <<bucket, flock, inserted, lookups, faultsLeft>>
           ELSE IF ~bucketExists
           THEN \* tx.Bucket(bucketName) is nil: the panic unwinds through
                \* the deferred db.Close()
                /\ proc' = [proc EXCEPT ![p] =
                              [Closed(@, "updateAlbumDb") EXCEPT !.pc = "panic",
                                                                 !.site = "inDb"]]
                /\ flock' = NoProc
                /\ detected' = detected \cup {[path |-> contentPath, result |-> TRUE]}
                /\ UNCHANGED <<bucket, inserted, lookups, faultsLeft>>
           ELSE /\ (~known /\ ~ok) => faultsLeft > 0
                /\ faultsLeft' = IF ~known /\ ~ok THEN faultsLeft - 1
                                 ELSE faultsLeft
                /\ detected' = detected \cup {[path |-> contentPath, result |-> TRUE]}
                /\ lookups' = lookups \cup
                      {[contents |-> album.Contents, found |-> known,
                        put |-> album.Contents \in inserted]}
                /\ bucket' = IF known THEN bucket ELSE addToDb(album, bucket, ok)
                /\ inserted' = IF ~known /\ ok
                               THEN inserted \cup {album.Contents} ELSE inserted
                /\ proc' = [proc EXCEPT ![p].i = @ + 1,
                                        ![p].writes = IF ~known /\ ok
                                                      THEN @ + 1 ELSE @]
                /\ UNCHANGED flock
    /\ UNCHANGED <<fs, dbExists, bucketExists, runs, replicated, aborted>>

\* updateAlbumDb returns: the deferred db.Close() runs.
updateAlbumDb_Return(p) ==
    /\ proc[p].pc = "updateAlbumDb_Loop"
    /\ proc[p].i > Len(proc[p].files)
    /\ proc' = [proc EXCEPT ![p] =
                  [Closed(@, "updateAlbumDb") EXCEPT !.pc = "linkNewAlbums",
                                                     !.op = "linkNewAlbums",
                                                     !.writes = 0]]
    /\ flock' = NoProc
    /\ UNCHANGED <<fs, dbExists, bucketExists, bucket, runs, faultsLeft,
                   replicated, aborted, inserted, lookups, detected>>

updateAlbumDb(p) ==
    \/ updateAlbumDb_ReadDir(p)
    \/ updateAlbumDb_Open(p)
    \/ \E ok \in BOOLEAN : updateAlbumDb_Loop(p, ok)
    \/ updateAlbumDb_Return(p)

(* ---------------------------- linkNewAlbums ---------------------------- *)

\* linkNewAlbums: ioutil.ReadDir(sourceDir); its error is overwritten by the
\* result of bolt.Open, so a failed listing is an empty one.
linkNewAlbums_ReadDir(p) ==
    /\ proc[p].pc = "linkNewAlbums"
    /\ proc' = [proc EXCEPT ![p].pc = "linkNewAlbums_Open",
                            ![p].files = ReadDir(fs, source).files,
                            ![p].i = 1]
    /\ UNCHANGED <<fs, dbExists, bucketExists, bucket, flock, runs, faultsLeft,
                   replicated, aborted, inserted, lookups, detected>>

linkNewAlbums_Open(p) ==
    boltOpen(p, "linkNewAlbums_Open", "linkNewAlbums", "linkNewAlbums_Loop")

\* One iteration of the loop of linkNewAlbums over sourceFiles, up to the
\* result of inDb: a regular file or a known album is counted, a new album
\* is linked by the next step.
linkNewAlbums_Loop(p) ==
    /\ proc[p].pc = "linkNewAlbums_Loop"
    /\ proc[p].i <= Len(proc[p].files)
    /\ LET file == proc[p].files[proc[p].i]
           contentPath == Join(source, file.name)
           found == isAlbum(fs, contentPath)
           album == newAlbum(fs, contentPath)
           known == inDb(album, bucket)
       IN  IF ~file.isDir
           THEN /\ proc' = [proc EXCEPT ![p].i = @ + 1, ![p].regFiles = @ + 1]
                /\ UNCHANGED <<flock, lookups, detected>>
           ELSE IF ~found
           THEN /\ proc' = [proc EXCEPT ![p].i = @ + 1]
                /\ detected' = detected \cup {[path |-> contentPath, result |-> FALSE]}
                /\ UNCHANGED <<flock, lookups>>
           ELSE IF ~bucketExists
           THEN /\ proc' = [proc EXCEPT ![p] =
                              [Closed(@, "linkNewAlbums") EXCEPT !.pc = "panic",
                                                                 !.site = "inDb"]]
                /\ flock' = NoProc
                /\ detected' = detected \cup {[path |-> contentPath, result |-> TRUE]}
                /\ UNCHANGED lookups
           ELSE /\ detected' = detected \cup {[path |-> contentPath, result |-> TRUE]}
                /\ lookups' = lookups \cup
                      {[contents |-> album.Contents, found |-> known,
                        put |-> album.Contents \in inserted]}
                /\ proc' = IF known
                           THEN [proc EXCEPT ![p].i = @ + 1, ![p].oldAlbums = @ + 1]
                           ELSE [proc EXCEPT ![p].pc = "linkNewAlbums_Link"]
                /\ UNCHANGED flock
    /\ UNCHANGED <<fs, dbExists, bucketExists, bucket, runs, faultsLeft, replicated,
                   aborted, inserted>>

\* The rest of the iteration for an album inDb did not find: linkAlbum,
\* addToDb, newAlbums++.  ok: the write transaction of addToDb commits;
\* space: the volume has room for the links.  A refused write is one of the
\* faultsLeft.
linkNewAlbums_Link(p, ok, space) ==
    /\ proc[p].pc = "linkNewAlbums_Link"
    /\ LET file == proc[p].files[proc[p].i]
           contentPath == Join(source, file.name)
           album == newAlbum(fs, contentPath)
           linked == linkAlbumOnVolume(fs, contentPath, dest, space)
           fault == ~space \/ (~linked.fatal /\ ~ok)
       IN  /\ fault => faultsLeft > 0
           /\ faultsLeft' = IF fault THEN faultsLeft - 1 ELSE faultsLeft
           /\ IF linked.fatal
              THEN \* log.Fatalf in linkAlbum: the process is gone, what it
                   \* created stays
                   /\ fs' = linked.fs
                   /\ proc' = [proc EXCEPT ![p] =
                                 [Fatal(@, "linkAlbum") EXCEPT
                                    !.linkAlbumCalls = @ + 1,
                                    !.writes = IF linked.fs = fs THEN @ ELSE @ + 1]]
                   /\ flock' = IF flock = p THEN NoProc ELSE flock
                   /\ aborted' = aborted \cup {Join(dest, Base(contentPath))}
                   /\ UNCHANGED <<bucket, replicated, inserted>>
              ELSE \* linkAlbum returned; the error of addToDb is dropped
                   /\ fs' = linked.fs
                   /\ bucket' = addToDb(album, bucket, ok)
                   /\ inserted' = IF ok THEN inserted \cup {album.Contents}
                                  ELSE inserted
                   /\ replicated' = Append(replicated,
                         [source |-> contentPath,
                          target |-> Join(dest, Base(contentPath)),
                          contents |-> album.Contents,
                          proc |-> p, run |-> proc[p].run])
                   /\ proc' = [proc EXCEPT ![p].pc = "linkNewAlbums_Loop",
                                           ![p].i = @ + 1,
                                           ![p].newAlbums = @ + 1,
                                           ![p].linkAlbumCalls = @ + 1,
                                           ![p].writes = @ + 1]
                   /\ UNCHANGED <<flock, aborted>>
    /\ UNCHANGED <<dbExists, bucketExists, runs, lookups, detected>>

\* linkNewAlbums returns after logging the counts: the deferred db.Close().
linkNewAlbums_Return(p) ==
    /\ proc[p].pc = "linkNewAlbums_Loop"
    /\ proc[p].i > Len(proc[p].files)
    /\ proc' = [proc EXCEPT ![p] =
                  [Closed(@, "linkNewAlbums") EXCEPT !.pc = "done"]]
    /\ flock' = NoProc
    /\ UNCHANGED <<fs, dbExists, bucketExists, bucket, runs, faultsLeft,
                   replicated, aborted, inserted, lookups, detected>>

linkNewAlbums(p) ==
    \/ linkNewAlbums_ReadDir(p)
    \/ linkNewAlbums_Open(p)
    \/ linkNewAlbums_Loop(p)
    \/ \E ok, space \in BOOLEAN : linkNewAlbums_Link(p, ok, space)
    \/ linkNewAlbums_Return(p)

(* ---------------------------- specification ---------------------------- *)

Next ==
    \/ \E p \in Procs :
          \/ setupAppDataDir(p)
          \/ createAlbumDb(p)
          \/ main(p)
          \/ updateAlbumDb(p)
          \/ linkNewAlbums(p)

Spec == Init /\ [][Next]_vars

(* ------------------- linkNewAlbums run twice in a row ------------------ *)

\* The album databases linkNewAlbums is started on: empty, or holding the
\* album M of the library.
InitialListings == {{}, {<<Name_a_flac>>}}

BucketOf(listings) == [k \in {GobEncode(c) : c \in listings} |-> Name_M]

InitTwice ==
    /\ \E sc \in Family :
          fs = MkFs(sc) /\ faultsLeft = MaxDeviations - Deviations(sc)
    /\ dbExists = TRUE
    /\ bucketExists = TRUE
    /\ inserted \in InitialListings
    /\ bucket = BucketOf(inserted)
    /\ flock = NoProc
    /\ proc = [p \in Procs |->
                 IF p = "p1" THEN [Fresh EXCEPT !.pc = "linkNewAlbums",
                                                !.op = "linkNewAlbums",
                                                !.run = 1]
                 ELSE Fresh]
    /\ runs = 1
    /\ replicated = <<>>
    /\ aborted = {}
    /\ lookups = {}
    /\ detected = {}

\* linkNewAlbums(source, dest) has returned and is called again.
linkNewAlbums_Again(p) ==
    /\ proc[p].pc = "done"
    /\ runs < MaxRuns
    /\ runs' = runs + 1
    /\ UNCHANGED faultsLeft
    /\ proc' = [proc EXCEPT ![p] = [Fresh EXCEPT !.pc = "linkNewAlbums",
                                                 !.op = "linkNewAlbums",
                                                 !.run = runs + 1]]
    /\ UNCHANGED <<fs, dbExists, bucketExists, bucket, flock,
                   replicated, aborted, inserted, lookups, detected>>

NextTwice ==
    \/ linkNewAlbums("p1")
    \/ linkNewAlbums_Again("p1")

SpecTwice == InitTwice /\ [][NextTwice]_vars

(* ---------------------- notions of the properties ---------------------- *)

\* path lies in the tree rooted at dir (dir itself included).
Under(path, dir) == Len(path) >= Len(dir) /\ SubSeq(path, 1, Len(dir)) = dir

\* Some file with extension .flac is in dir or in a descendant of dir.
HasFlac(f, dir) ==
    \E q \in DOMAIN f : Under(q, dir) /\ q # dir /\ ~f[q].isDir /\ Ext(q) = FlacExt

\* Every directory of the tree rooted at dir can be listed.
ReadableTree(f, dir) ==
    \A q \in DOMAIN f : (Under(q, dir) /\ f[q].isDir) => f[q].readable

\* The tree at t mirrors the tree at s: the same names at every level,
\* directories as directories, every other entry the same inode.
Mirrors(f, s, t) ==
    /\ t \in DOMAIN f
    /\ \A q \in DOMAIN f : Under(q, s) =>
          LET m == t \o SubSeq(q, Len(s) + 1, Len(q))
          IN  /\ m \in DOMAIN f
              /\ f[m].isDir = f[q].isDir
              /\ ~f[q].isDir => f[m].ino = f[q].ino
    /\ \A m \in DOMAIN f : Under(m, t) =>
          (s \o SubSeq(m, Len(t) + 1, Len(m))) \in DOMAIN f

\* The directories ioutil.ReadDir lists in the source root.
SourceDirs ==
    LET files == ReadDir(fs, source).files
    IN  {Join(source, files[i].name) : i \in {j \in 1..Len(files) : files[j].isDir}}

\* The directories of the source root isAlbum takes for albums.
SourceAlbums == {d \in SourceDirs : isAlbum(fs, d)}

(* ----------------------------- properties ------------------------------ *)

\* C1: when linkNewAlbums has returned and is run again with nothing
\* changed but by the first run, the second run never calls linkAlbum,
\* counts no new album and counts every detected source album as old.
C1_SecondRunLinksNothing ==
    \A p \in Procs :
        (proc[p].run >= 2 /\ proc[p].op = "linkNewAlbums") =>
            /\ proc[p].linkAlbumCalls = 0
            /\ proc[p].pc = "done" =>
                  /\ proc[p].newAlbums = 0
                  /\ proc[p].oldAlbums = Cardinality(SourceAlbums)

\* C2: over all runs linkAlbum returns at most once per album key, and no
\* source directory is linked twice.
C2_AtMostOnce ==
    \A i, j \in 1..Len(replicated) :
        i # j => /\ GobEncode(replicated[i].contents) # GobEncode(replicated[j].contents)
                 /\ replicated[i].source # replicated[j].source

\* C3: no source album whose copy in the target is incomplete has its key
\* in the album database.
C3_NeverPartiallyRegistered ==
    \A d \in SourceDirs :
        LET t == Join(dest, Base(d))
        IN  (t \in DOMAIN fs /\ ~Mirrors(fs, d, t) /\ bucketExists)
                => ~inDb(newAlbum(fs, d), bucket)

\* C4: whenever linkAlbum(sourceDir, targetParent) has returned, the tree
\* at targetParent/base(sourceDir) mirrors sourceDir and every file in it
\* is a hardlink of its source.
C4_ReplicationFidelity ==
    \A i \in 1..Len(replicated) :
        Mirrors(fs, replicated[i].source, replicated[i].target)

\* C5: on a tree whose directories are all readable, isAlbum returns true
\* exactly when the tree holds a file with extension .flac.
C5_IsAlbumIffFlac ==
    \A d \in detected :
        ReadableTree(fs, d.path) => (d.result <=> HasFlac(fs, d.path))

\* C6: a listing whose Put committed is found by inDb under any directory
\* name, on the same handle and on every later one, and inDb finds no
\* listing that was never put.
C6_RoundTrip ==
    /\ \A c \in inserted :
          \A n \in {Name_A, Name_B, Name_M} :
              bucketExists /\ inDb([DirName |-> n, Contents |-> c], bucket)
    /\ \A l \in lookups : l.found = l.put

\* C6 happens: a listing was looked up and missing, put, and found again by
\* a later run.
C6_Witness ==
    \E l1, l2 \in lookups, p \in Procs :
        /\ l1.contents = l2.contents
        /\ ~l1.found /\ l2.found
        /\ l1.contents \in inserted
        /\ Len(replicated) = 1
        /\ replicated[1].contents = l1.contents /\ replicated[1].run = 1
        /\ proc[p].run = 2 /\ proc[p].oldAlbums = 1

\* C7: at most one running process holds an open handle of the album
\* database, and a process whose bolt.Open timed out has written nothing in
\* the operation it was in.
C7_MutualExclusion ==
    /\ Cardinality({p \in Procs : proc[p].pc \notin Stopped /\ proc[p].handles > 0}) <= 1
    /\ \A p \in Procs :
          (proc[p].pc \notin Stopped /\ proc[p].handles > 0) => flock = p
    /\ \A p \in Procs :
          (proc[p].pc = "fatal" /\ proc[p].site = "bolt.Open") =>
              proc[p].writes = 0 /\ proc[p].handles = 0

\* C7 happens: one process holds the handle while the other has died of
\* the timeout.
C7_Witness ==
    \E p, q \in Procs :
        /\ p # q
        /\ proc[p].pc = "linkNewAlbums_Loop" /\ proc[p].handles = 1
        /\ proc[q].pc = "fatal" /\ proc[q].site = "bolt.Open"

\* C8: every operation that opened a handle has closed it when the process
\* has ended, however it ended.
C8_CloseOnEveryExit ==
    \A p \in Procs :
        proc[p].pc \in {"done", "fatal", "panic"} =>
            \A op \in Ops : proc[p].closes[op] = proc[p].opens[op]

\* C9: with an unreadable target root updateAlbumDb does not complete, with
\* an unreadable source root linkNewAlbums does not complete, and an
\* unreadable directory met by isAlbum only makes it return false.
C9_UnreadableRootIsFatal ==
    /\ \A p \in Procs :
          /\ ReadDir(fs, dest).err => proc[p].op # "linkNewAlbums"
          /\ ReadDir(fs, source).err => proc[p].pc # "done"
    /\ \A d \in detected : ReadDir(fs, d.path).err => ~d.result

\* C10: updateAlbumDb has opened and closed its handle once before
\* linkNewAlbums starts, no operation opens twice, and a process never
\* holds two handles.
C10_Sequencing ==
    \A p \in Procs :
        LET r == proc[p]
        IN  /\ r.handles <= 1
            /\ \A op \in Ops : r.opens[op] <= 1 /\ r.closes[op] <= r.opens[op]
            /\ r.op \in {"updateAlbumDb", "linkNewAlbums"} =>
                  r.closes.createAlbumDb = r.opens.createAlbumDb
            /\ r.op = "updateAlbumDb" => r.opens.linkNewAlbums = 0
            /\ r.op = "linkNewAlbums" =>
                  r.opens.updateAlbumDb = 1 /\ r.closes.updateAlbumDb = 1
            /\ r.pc = "done" =>
                  /\ r.opens.linkNewAlbums = 1 /\ r.closes.linkNewAlbums = 1
                  /\ r.handles = 0

\* C10 happens: a run that initialized the database has gone through both
\* operations.
C10_Witness ==
    \E p \in Procs :
        /\ proc[p].pc = "done"
        /\ \A op \in Ops : proc[p].opens[op] = 1 /\ proc[p].closes[op] = 1

\* The entries of the listing `contents` of dirPath that are a directory or
\* a name with extension .flac.
Decisive(dirPath, contents) ==
    {i \in 1..Len(contents) :
        contents[i].isDir \/ Ext(Join(dirPath, contents[i].name)) = FlacExt}

\* What the first decisive entry of dirPath says: false when dirPath cannot
\* be listed or has no decisive entry, true when the entry is a .flac file,
\* isAlbum of the subdirectory when it is a directory.
DecidedByFirst(f, dirPath) ==
    LET r == ReadDir(f, dirPath)
        S == Decisive(dirPath, r.files)
    IN  IF r.err \/ S = {} THEN FALSE
        ELSE LET k == CHOOSE i \in S : \A j \in S : i <= j
             IN  IF r.files[k].isDir
                 THEN isAlbum(f, Join(dirPath, r.files[k].name))
                 ELSE TRUE

LibraryDirs ==
    LET files == ReadDir(fs, dest).files
    IN  {Join(dest, files[i].name) : i \in {j \in 1..Len(files) : files[j].isDir}}

\* Process p takes a step of operation op.
StepOf(p, op) ==
    proc[p].op = op /\ proc[p].pc \notin Stopped /\ proc'[p] # proc[p]

\* C12: a step of updateAlbumDb changes no file or directory, links no
\* album and creates no database or bucket; when it changes the bucket, it adds the encoded listing of one
\* directory of the target root that isAlbum detects and whose encoded
\* listing was not in the bucket, under that directory's name, and nothing
\* else.
C12_BackfillFrame ==
    [][\A p \in Procs : StepOf(p, "updateAlbumDb") =>
          /\ fs' = fs
          /\ replicated' = replicated /\ aborted' = aborted
          /\ dbExists' = dbExists /\ bucketExists' = bucketExists
          /\ bucket' # bucket =>
                \E d \in LibraryDirs :
                    LET k == GobEncode(newAlbum(fs, d).Contents)
                    IN  /\ isAlbum(fs, d)
                        /\ k \notin DOMAIN bucket
                        /\ bucket' = (k :> Base(d)) @@ bucket]_vars

\* C12 happens: updateAlbumDb has gone through a target root that holds the
\* album M, has put its key, and nothing was linked or made.
C12_Witness ==
    \E p \in Procs :
        /\ proc[p].pc = "updateAlbumDb_Loop" /\ proc[p].i > Len(proc[p].files)
        /\ proc[p].writes = 1
        /\ LibraryDirs = {Join(dest, Name_M)}
        /\ DOMAIN bucket = {GobEncode(<<Name_a_flac>>)}
        /\ replicated = <<>> /\ aborted = {}

\* The album directories the target root held before any run: those no
\* call of linkAlbum made.
LibraryAlbumsBefore ==
    {m \in LibraryDirs :
        /\ isAlbum(fs, m)
        /\ m \notin aborted
        /\ \A i \in 1..Len(replicated) : replicated[i].target # m}

\* C13: of two detected source albums with different names and the same
\* listing, the later in listing order is never linked and a completed
\* linkNewAlbums has counted one as old; a source album whose listing is
\* that of an album the target root already held under another name is
\* never linked.
C13_IdentityByListing ==
    /\ \A d1, d2 \in SourceAlbums :
          (/\ NameLess(Base(d1), Base(d2))
           /\ newAlbum(fs, d1).Contents = newAlbum(fs, d2).Contents) =>
              /\ \A i \in 1..Len(replicated) : replicated[i].source # d2
              /\ \A p \in Procs : proc[p].pc = "done" => proc[p].oldAlbums >= 1
    /\ \A i \in 1..Len(replicated) :
          \A m \in LibraryAlbumsBefore :
              Base(m) # Base(replicated[i].source) =>
                  newAlbum(fs, m).Contents # replicated[i].contents

\* C14: no step of any run removes a key from the bucket or changes the
\* directory name stored under a key.
C14_AppendOnly ==
    [][/\ DOMAIN bucket \subseteq DOMAIN bucket'
       /\ \A k \in DOMAIN bucket : bucket'[k] = bucket[k]]_vars

\* C14 happens: updateAlbumDb has put the album M of the target root, and
\* linkNewAlbums has met the source album A with the same listing and left
\* the entry as it was.
C14_Witness ==
    \E p \in Procs :
        /\ proc[p].pc = "done" /\ proc[p].oldAlbums = 1
        /\ Join(source, Name_A) \in SourceAlbums
        /\ Key(newAlbum(fs, Join(source, Name_A))) \in DOMAIN bucket
        /\ bucket[Key(newAlbum(fs, Join(source, Name_A)))] = Name_M

\* The entries of the source root that are no directories.
SourceRegularFiles ==
    {q \in DOMAIN fs : Len(q) = Len(source) + 1 /\ Under(q, source) /\ ~fs[q].isDir}

\* The calls of linkAlbum that returned in the current run of process p.
ReplicatedBy(p) ==
    {i \in 1..Len(replicated) :
        replicated[i].proc = p /\ replicated[i].run = proc[p].run}

\* C15: when linkNewAlbums has returned, regFiles is the number of entries
\* of the source root that are no directories, newAlbums the number of
\* source directories this run linked, and oldAlbums the number of the
\* remaining detected source albums, those found in the bucket; a
\* directory that is no album is in no count.
C15_SummaryCounts ==
    \A p \in Procs :
        proc[p].pc = "done" =>
            /\ proc[p].regFiles = Cardinality(SourceRegularFiles)
            /\ proc[p].newAlbums = Cardinality(ReplicatedBy(p))
            /\ proc[p].oldAlbums + proc[p].newAlbums = Cardinality(SourceAlbums)

\* C16: whenever updateAlbumDb or linkNewAlbums holds an open handle, the
\* bucket "albums" exists, and no lookup ever meets a missing bucket,
\* whatever earlier runs did.
C16_BucketExists ==
    \A p \in Procs :
        /\ (proc[p].op \in {"updateAlbumDb", "linkNewAlbums"} /\ proc[p].handles > 0)
              => bucketExists
        /\ proc[p].pc # "panic"

\* Process p calls linkAlbum in this step.
CallsLinkAlbum(p) == proc'[p].linkAlbumCalls = proc[p].linkAlbumCalls + 1

\* C17: with two processes running at once on the same directories and
\* database, no source directory is linked by both (nor twice by one), and
\* no process calls linkAlbum for an album whose key is in the bucket.
C17_NoDoubleReplication ==
    /\ [](\A i, j \in 1..Len(replicated) :
             replicated[i].source = replicated[j].source => i = j)
    /\ [][\A p \in Procs : CallsLinkAlbum(p) =>
             LET d == Join(source, proc[p].files[proc[p].i].name)
             IN  Key(newAlbum(fs, d)) \notin DOMAIN bucket]_vars

\* C17 happens: one process has linked the first of two source albums and
\* is about to link the second while the other process, started meanwhile
\* and through with updateAlbumDb, is about to open the database for
\* linkNewAlbums.
C17_Witness ==
    \E p, q \in Procs :
        /\ p # q
        /\ proc[p].pc = "linkNewAlbums_Link" /\ proc[p].newAlbums = 1
        /\ Len(replicated) = 1 /\ replicated[1].proc = p
        /\ proc[q].pc = "linkNewAlbums_Open"
        /\ Cardinality(SourceAlbums) = 2

\* C18: when linkNewAlbums has returned, the key of every source directory
\* isAlbum detects is in the bucket, and so is the key of every album the
\* run counted as new.
C18_AllRegistered ==
    \A p \in Procs :
        proc[p].pc = "done" =>
            /\ \A d \in SourceAlbums :
                  bucketExists /\ inDb(newAlbum(fs, d), bucket)
            /\ \A i \in ReplicatedBy(p) :
                  GobEncode(replicated[i].contents) \in DOMAIN bucket

\* The part of the file system in the tree rooted at t.
Tree(f, t) == [q \in {x \in DOMAIN f : Under(x, t)} |-> f[q]]

\* C19: once a call of linkAlbum has died, the tree at its target
\* directory is never changed again by any run; a later linkNewAlbums that
\* comes to the source album either counts it as old or calls linkAlbum
\* and dies there with nothing created.
C19_PartialStaysPartial ==
    /\ [][\A t \in aborted : Tree(fs', t) = Tree(fs, t)]_vars
    /\ [][\A p \in Procs :
             (/\ StepOf(p, "linkNewAlbums")
              /\ proc[p].pc \in {"linkNewAlbums_Loop", "linkNewAlbums_Link"}
              /\ proc[p].i <= Len(proc[p].files)
              /\ Join(dest, proc[p].files[proc[p].i].name) \in aborted) =>
                 \/ proc'[p].pc = "linkNewAlbums_Link" /\ proc[p].pc # proc'[p].pc
                 \/ proc'[p].oldAlbums = proc[p].oldAlbums + 1
                 \/ /\ CallsLinkAlbum(p)
                    /\ proc'[p].pc = "fatal" /\ proc'[p].site = "linkAlbum"
                    /\ fs' = fs]_vars

\* C19 happens: a call of linkAlbum died with the target directory made
\* and not all of the album in it, and a later run came to the album again
\* and died in linkAlbum.
C19_Witness ==
    \E p \in Procs, d \in SourceAlbums :
        LET t == Join(dest, Base(d))
        IN  /\ t \in aborted /\ t \in DOMAIN fs /\ ~Mirrors(fs, d, t)
            /\ proc[p].run = 2
            /\ proc[p].pc = "fatal" /\ proc[p].site = "linkAlbum"
            /\ proc[p].writes = 0
            /\ \A q \in Procs \ {p} : proc[q].run = 1 /\ proc[q].pc = "fatal"

\* C19 happens the other way: updateAlbumDb of a later run has put the
\* listing of the partial directory, and linkNewAlbums has counted the
\* album as old.
C19_WitnessKnown ==
    \E p \in Procs, d \in SourceAlbums :
        LET t == Join(dest, Base(d))
        IN  /\ t \in aborted /\ t \in DOMAIN fs /\ ~Mirrors(fs, d, t)
            /\ proc[p].run = 2 /\ proc[p].pc = "done"
            /\ proc[p].oldAlbums = Cardinality(SourceAlbums)

=============================================================================
